---- MODULE Spec2Model ----
(***************************************************************************)
(* Model of the flureeCrypto C core: src/src/secp256k1.c (key validation,  *)
(* key generation, recoverable signing, public-key recovery) and           *)
(* src/src/biginteger.c (decimal string to bytes / hex).                    *)
(*                                                                         *)
(* Byte buffers are sequences over 0..255, indexed from 1 (C index i is    *)
(* TLA+ index i+1).  Hex strings are sequences of characters: 0..15 stand  *)
(* for the hex digits '0'..'f', NotADigit for any character that is none. *)
(* Decimal strings use 0..9 and NotADigit.                                 *)
(*                                                                         *)
(* libsecp256k1 is an external library.  Its results on the finite key and *)
(* digest domain of the model are the real secp256k1 values (RFC 6979      *)
(* nonces, low-s normalisation), tabulated below.                          *)
(***************************************************************************)
EXTENDS Integers, Sequences, FiniteSets, TLC

VARIABLES
  pc,        \* "idle", or "seckey_loop" inside the do-while of generate_seckey_R
  op,        \* name of the entry point called last
  arg,       \* its arguments
  ret,       \* its outcome: [kind, val, msg]
  stack,     \* the indeterminate bytes the call found in its local buffers
  seckey,    \* generate_seckey_R: the local seckey[32]
  caller,    \* generate_seckey_R: who called it ("R" or "generate_keypair_R")
  attempts,  \* generate_seckey_R: iterations of the do-while so far
  shortRead, \* generate_seckey_R: some fread of this call delivered no item
  prevSign   \* sign_R_R: the call just before it when that was sign_R_R too

vars == <<pc, op, arg, ret, stack, seckey, caller, attempts, shortRead, prevSign>>

(***************************************************************************)
(* secp256k1 constants and the tabulated library results.                  *)
(***************************************************************************)
secp256k1_n ==
  <<\hff,\hff,\hff,\hff,\hff,\hff,\hff,\hff,\hff,\hff,\hff,\hff,\hff,\hff,\hff,\hfe,
    \hba,\hae,\hdc,\he6,\haf,\h48,\ha0,\h3b,\hbf,\hd2,\h5e,\h8c,\hd0,\h36,\h41,\h41>>

FieldMinusOrder ==
  <<\h00,\h00,\h00,\h00,\h00,\h00,\h00,\h00,\h00,\h00,\h00,\h00,\h00,\h00,\h00,\h01,
    \h45,\h51,\h23,\h19,\h50,\hb7,\h5f,\hc4,\h40,\h2d,\ha1,\h72,\h2f,\hc9,\hba,\hee>>

KeyOne ==
  <<\h00,\h00,\h00,\h00,\h00,\h00,\h00,\h00,\h00,\h00,\h00,\h00,\h00,\h00,\h00,\h00,
    \h00,\h00,\h00,\h00,\h00,\h00,\h00,\h00,\h00,\h00,\h00,\h00,\h00,\h00,\h00,\h01>>

KeyNMinus1 ==
  <<\hff,\hff,\hff,\hff,\hff,\hff,\hff,\hff,\hff,\hff,\hff,\hff,\hff,\hff,\hff,\hfe,
    \hba,\hae,\hdc,\he6,\haf,\h48,\ha0,\h3b,\hbf,\hd2,\h5e,\h8c,\hd0,\h36,\h41,\h40>>

KeyMid ==
  <<\h4c,\h08,\h83,\ha6,\h91,\h02,\h93,\h7d,\h62,\h31,\h47,\h1b,\h5d,\hbb,\h62,\h04,
    \hfe,\h51,\h29,\h61,\h70,\h82,\h79,\h2a,\he4,\h68,\hd0,\h1a,\h3f,\h36,\h23,\h18>>

Digest0 ==
  <<\h00,\h00,\h00,\h00,\h00,\h00,\h00,\h00,\h00,\h00,\h00,\h00,\h00,\h00,\h00,\h00,
    \h00,\h00,\h00,\h00,\h00,\h00,\h00,\h00,\h00,\h00,\h00,\h00,\h00,\h00,\h00,\h00>>

Digest1 ==
  <<\h00,\h00,\h00,\h00,\h00,\h00,\h00,\h00,\h00,\h00,\h00,\h00,\h00,\h00,\h00,\h00,
    \h00,\h00,\h00,\h00,\h00,\h00,\h00,\h00,\h00,\h00,\h00,\h00,\h00,\h00,\h00,\h01>>

Digest118 ==
  <<\h00,\h00,\h00,\h00,\h00,\h00,\h00,\h00,\h00,\h00,\h00,\h00,\h00,\h00,\h00,\h00,
    \h00,\h00,\h00,\h00,\h00,\h00,\h00,\h00,\h00,\h00,\h00,\h00,\h00,\h00,\h00,\h76>>

Digest120 ==
  <<\h00,\h00,\h00,\h00,\h00,\h00,\h00,\h00,\h00,\h00,\h00,\h00,\h00,\h00,\h00,\h00,
    \h00,\h00,\h00,\h00,\h00,\h00,\h00,\h00,\h00,\h00,\h00,\h00,\h00,\h00,\h00,\h78>>

PubkeyTable == {
  [seckey |-> KeyOne,
   x |-> <<\h79,\hbe,\h66,\h7e,\hf9,\hdc,\hbb,\hac,\h55,\ha0,\h62,\h95,\hce,\h87,\h0b,\h07,\h02,\h9b,\hfc,\hdb,\h2d,\hce,\h28,\hd9,\h59,\hf2,\h81,\h5b,\h16,\hf8,\h17,\h98>>,
   y |-> <<\h48,\h3a,\hda,\h77,\h26,\ha3,\hc4,\h65,\h5d,\ha4,\hfb,\hfc,\h0e,\h11,\h08,\ha8,\hfd,\h17,\hb4,\h48,\ha6,\h85,\h54,\h19,\h9c,\h47,\hd0,\h8f,\hfb,\h10,\hd4,\hb8>>],
  [seckey |-> KeyNMinus1,
   x |-> <<\h79,\hbe,\h66,\h7e,\hf9,\hdc,\hbb,\hac,\h55,\ha0,\h62,\h95,\hce,\h87,\h0b,\h07,\h02,\h9b,\hfc,\hdb,\h2d,\hce,\h28,\hd9,\h59,\hf2,\h81,\h5b,\h16,\hf8,\h17,\h98>>,
   y |-> <<\hb7,\hc5,\h25,\h88,\hd9,\h5c,\h3b,\h9a,\ha2,\h5b,\h04,\h03,\hf1,\hee,\hf7,\h57,\h02,\he8,\h4b,\hb7,\h59,\h7a,\hab,\he6,\h63,\hb8,\h2f,\h6f,\h04,\hef,\h27,\h77>>],
  [seckey |-> KeyMid,
   x |-> <<\h4e,\h3b,\h81,\haf,\h9c,\h22,\h34,\hca,\hd0,\h9d,\h67,\h9c,\he6,\h03,\h5e,\hd1,\h39,\h23,\h47,\hce,\h64,\hce,\h40,\h5f,\h5d,\hcd,\h36,\h22,\h8a,\h25,\hde,\h6e>>,
   y |-> <<\h47,\hfd,\h35,\hc4,\h21,\h5d,\h1e,\hdf,\h53,\he6,\hf8,\h3d,\he3,\h44,\h61,\h5c,\he7,\h19,\hbd,\hb0,\hfd,\h87,\h8f,\h6e,\hd7,\h6f,\h06,\hdd,\h27,\h79,\h56,\hde>>]}

OtherPoint ==
  [x |-> <<\hc6,\h04,\h7f,\h94,\h41,\hed,\h7d,\h6d,\h30,\h45,\h40,\h6e,\h95,\hc0,\h7c,\hd8,\h5c,\h77,\h8e,\h4b,\h8c,\hef,\h3c,\ha7,\hab,\hac,\h09,\hb9,\h5c,\h70,\h9e,\he5>>,
   y |-> <<\h1a,\he1,\h68,\hfe,\ha6,\h3d,\hc3,\h39,\ha3,\hc5,\h84,\h19,\h46,\h6c,\hea,\hee,\hf7,\hf6,\h32,\h65,\h32,\h66,\hd0,\he1,\h23,\h64,\h31,\ha9,\h50,\hcf,\he5,\h2a>>]

SignTable == {
  [seckey |-> KeyOne, msg32 |-> Digest0, recid |-> 1,
   r |-> <<\ha0,\hb3,\h7f,\h8f,\hba,\h68,\h3c,\hc6,\h8f,\h65,\h74,\hcd,\h43,\hb3,\h9f,\h03,\h43,\ha5,\h00,\h08,\hbf,\h6c,\hce,\ha9,\hd1,\h32,\h31,\hd9,\he7,\he2,\he1,\he4>>,
   s |-> <<\h11,\hed,\hc8,\hd3,\h07,\h25,\h42,\h96,\h26,\h4a,\heb,\hfc,\h3d,\hc7,\h6c,\hd8,\hb6,\h68,\h37,\h3a,\h07,\h2f,\hd6,\h46,\h65,\hb5,\h00,\h00,\he9,\hfc,\hce,\h52>>],
  [seckey |-> KeyOne, msg32 |-> Digest1, recid |-> 1,
   r |-> <<\h66,\h73,\hff,\had,\h21,\h47,\h74,\h1f,\h04,\h77,\h2b,\h6f,\h92,\h1f,\h0b,\ha6,\haf,\h0c,\h1e,\h77,\hfc,\h43,\h9e,\h65,\hc3,\h6d,\hed,\hf4,\h09,\h2e,\h88,\h98>>,
   s |-> <<\h4c,\h1a,\h97,\h16,\h52,\he0,\had,\ha8,\h80,\h12,\h0e,\hf8,\h02,\h5e,\h70,\h9f,\hff,\h20,\h80,\hc4,\ha3,\h9a,\hae,\h06,\h8d,\h12,\hee,\hd0,\h09,\hb6,\h8c,\h89>>],
  [seckey |-> KeyOne, msg32 |-> Digest118, recid |-> 1,
   r |-> <<\h5b,\h68,\h70,\hc4,\hbc,\h86,\h4d,\h55,\h84,\hb0,\h56,\hf0,\h82,\h97,\h69,\h3f,\had,\h26,\heb,\hba,\h15,\hc4,\h5e,\h21,\he5,\h00,\hd0,\h74,\hc7,\h96,\h8f,\h8d>>,
   s |-> <<\h50,\he8,\h44,\hfd,\hcf,\h0a,\h71,\hfe,\h4b,\h62,\h5a,\hcf,\hcd,\ha4,\h0b,\ha1,\hbe,\h8d,\h21,\hcd,\h15,\h3c,\h04,\h7a,\hc1,\hd1,\hcb,\hff,\hd5,\h4c,\hd3,\hfb>>],
  [seckey |-> KeyOne, msg32 |-> Digest120, recid |-> 1,
   r |-> <<\hd3,\hcf,\h46,\he3,\hac,\h00,\ha5,\he4,\hb1,\hc7,\h8a,\h08,\h50,\h7f,\hab,\h8c,\hb7,\h98,\h87,\h26,\hd0,\h99,\h20,\hc6,\h9d,\h72,\h4c,\h8b,\h7e,\h8e,\hf4,\hca>>,
   s |-> <<\h01,\h81,\h42,\h32,\haa,\hd3,\h52,\ha9,\h7c,\h02,\h86,\h40,\h17,\hb3,\h05,\h3f,\hd5,\hdb,\h3a,\hda,\ha3,\hde,\hc7,\hf0,\h94,\hd3,\h3a,\h19,\h1b,\h90,\he3,\h65>>],
  [seckey |-> KeyNMinus1, msg32 |-> Digest0, recid |-> 0,
   r |-> <<\h91,\h90,\h26,\hf3,\he2,\h39,\hea,\h52,\hcf,\h53,\h0e,\hb6,\hd3,\h45,\hdc,\h2b,\h56,\hef,\h09,\h28,\hf1,\he9,\had,\h20,\hd8,\hf3,\h60,\h28,\h4d,\hc6,\h50,\h48>>,
   s |-> <<\h14,\h39,\h5e,\h71,\h37,\he2,\h20,\h4f,\h15,\hb6,\h92,\h39,\h01,\h0f,\h3c,\h34,\hfb,\hb3,\hc8,\h58,\ha2,\h9b,\h0d,\h10,\h6b,\h1f,\ha6,\h5b,\hc0,\h04,\h72,\h63>>],
  [seckey |-> KeyNMinus1, msg32 |-> Digest1, recid |-> 1,
   r |-> <<\hea,\ha0,\h3e,\h6c,\h5c,\hc8,\h15,\hdd,\h7c,\hee,\h2e,\h11,\h46,\h0d,\hf5,\h1a,\h04,\hbf,\hd9,\hb3,\h16,\h9a,\ha6,\h3f,\h73,\h5c,\h95,\hdc,\hf6,\h23,\hc9,\h5d>>,
   s |-> <<\h19,\h2b,\hf1,\h70,\he5,\h28,\h4e,\hfe,\hfd,\hb0,\hd8,\hce,\h14,\h87,\h59,\ha4,\h8a,\hda,\h55,\h3b,\hd9,\h29,\hd3,\hde,\hda,\h54,\h51,\hde,\hcf,\ha5,\hc7,\h0e>>],
  [seckey |-> KeyNMinus1, msg32 |-> Digest118, recid |-> 0,
   r |-> <<\h92,\hef,\hff,\hc2,\h5c,\h6c,\hec,\h55,\hb9,\h69,\h20,\h50,\he5,\h55,\h90,\he4,\h33,\h54,\h58,\ha7,\h70,\h9a,\h54,\he3,\h5d,\h74,\h47,\h12,\h35,\h3b,\h17,\h72>>,
   s |-> <<\h47,\h66,\h6f,\h68,\hab,\h95,\hdc,\h36,\h36,\h64,\ha7,\hf0,\hd3,\h7f,\h2c,\hb2,\h93,\hd6,\h17,\h46,\h6b,\hef,\h95,\h72,\h34,\h1e,\h18,\hb8,\h3e,\h06,\hca,\h86>>],
  [seckey |-> KeyNMinus1, msg32 |-> Digest120, recid |-> 1,
   r |-> <<\h4c,\h84,\hd7,\h6f,\h3f,\hd8,\h97,\h0c,\hfd,\h6f,\h23,\h04,\h5d,\hb8,\h40,\h39,\h4a,\h16,\h5e,\h45,\h26,\h0d,\h9b,\h49,\hfa,\hd6,\h3d,\h33,\hbd,\hbc,\h20,\h6c>>,
   s |-> <<\h75,\h54,\h71,\h16,\h99,\h86,\hca,\hb9,\he1,\h92,\hc6,\h31,\hf8,\hd7,\hd5,\hdd,\hbd,\h6f,\hed,\h03,\ha3,\h90,\hac,\h87,\hba,\hbb,\hfb,\h79,\h1f,\h22,\h5f,\h43>>],
  [seckey |-> KeyMid, msg32 |-> Digest0, recid |-> 0,
   r |-> <<\hb4,\hd8,\haa,\h58,\h0d,\h8b,\hef,\hed,\ha7,\ha7,\h3a,\hed,\h10,\h1e,\h34,\hff,\h83,\h85,\hda,\h94,\hfd,\h4c,\h2d,\hfb,\had,\hb1,\h1f,\h3e,\hf6,\h2e,\hdc,\hd3>>,
   s |-> <<\h6c,\h52,\h63,\heb,\ha1,\h8b,\h60,\h34,\h9b,\h39,\ha9,\h6b,\hfb,\ha0,\heb,\hc5,\h7a,\he5,\hca,\h06,\h76,\he3,\ha5,\hc4,\hb3,\h7d,\hd6,\hd9,\h20,\h80,\hf8,\hcc>>],
  [seckey |-> KeyMid, msg32 |-> Digest1, recid |-> 1,
   r |-> <<\ha2,\h80,\h77,\hf3,\h9b,\hc8,\hff,\h27,\h48,\h23,\h98,\h3f,\h7c,\h9c,\h9a,\h06,\he4,\h06,\h74,\h08,\h91,\h0e,\h27,\h33,\ha4,\h08,\h64,\hf9,\he6,\h70,\he3,\h63>>,
   s |-> <<\h7f,\ha1,\h4f,\h83,\h47,\ha7,\h1e,\had,\hdb,\h73,\h1a,\h81,\h12,\hc9,\hc9,\h28,\h1a,\h2d,\he6,\hd4,\h15,\hc3,\h75,\he1,\hb8,\h11,\h19,\h44,\h1c,\h6c,\hdd,\h43>>],
  [seckey |-> KeyMid, msg32 |-> Digest118, recid |-> 1,
   r |-> <<\he2,\hd5,\h3f,\hcd,\hbc,\h8f,\hf2,\h2e,\h9a,\ha3,\hf3,\h2f,\hde,\h73,\hd0,\h1b,\h4c,\h23,\h2f,\heb,\h42,\hfe,\hda,\he8,\h10,\h4f,\hcc,\h8b,\ha8,\hde,\h11,\h49>>,
   s |-> <<\h00,\h70,\h69,\heb,\he3,\hd5,\h2a,\h3c,\he7,\hc6,\h8e,\h2d,\h1b,\ha6,\h7f,\h9c,\h0c,\hea,\ha5,\h4d,\hc6,\hd2,\h1e,\hc0,\hbf,\ha5,\ha5,\h6a,\h6e,\h64,\h1e,\h26>>],
  [seckey |-> KeyMid, msg32 |-> Digest120, recid |-> 0,
   r |-> <<\h00,\h6a,\h95,\hac,\h0c,\hc5,\h44,\hce,\hf1,\hdd,\h8a,\ha1,\hd0,\h04,\h30,\h85,\h00,\hde,\h11,\hd8,\ha6,\hf2,\hae,\h36,\h5f,\h47,\h35,\h7a,\h3b,\h72,\hcb,\hb5>>,
   s |-> <<\h0e,\hc8,\h2b,\h00,\h24,\h29,\h6e,\h89,\hcd,\hde,\h52,\hde,\hef,\h3f,\h4f,\h4f,\h78,\he3,\h18,\h07,\hbf,\h84,\hb6,\h0f,\h06,\h13,\h15,\h02,\hcb,\h01,\h07,\h91>>]}

RecoverTable == {
  [msg32 |-> Digest0, recid |-> 0,
   r |-> <<\ha0,\hb3,\h7f,\h8f,\hba,\h68,\h3c,\hc6,\h8f,\h65,\h74,\hcd,\h43,\hb3,\h9f,\h03,\h43,\ha5,\h00,\h08,\hbf,\h6c,\hce,\ha9,\hd1,\h32,\h31,\hd9,\he7,\he2,\he1,\he4>>,
   s |-> <<\h11,\hed,\hc8,\hd3,\h07,\h25,\h42,\h96,\h26,\h4a,\heb,\hfc,\h3d,\hc7,\h6c,\hd8,\hb6,\h68,\h37,\h3a,\h07,\h2f,\hd6,\h46,\h65,\hb5,\h00,\h00,\he9,\hfc,\hce,\h52>>,
   x |-> <<\h79,\hbe,\h66,\h7e,\hf9,\hdc,\hbb,\hac,\h55,\ha0,\h62,\h95,\hce,\h87,\h0b,\h07,\h02,\h9b,\hfc,\hdb,\h2d,\hce,\h28,\hd9,\h59,\hf2,\h81,\h5b,\h16,\hf8,\h17,\h98>>,
   y |-> <<\hb7,\hc5,\h25,\h88,\hd9,\h5c,\h3b,\h9a,\ha2,\h5b,\h04,\h03,\hf1,\hee,\hf7,\h57,\h02,\he8,\h4b,\hb7,\h59,\h7a,\hab,\he6,\h63,\hb8,\h2f,\h6f,\h04,\hef,\h27,\h77>>],
  [msg32 |-> Digest0, recid |-> 1,
   r |-> <<\ha0,\hb3,\h7f,\h8f,\hba,\h68,\h3c,\hc6,\h8f,\h65,\h74,\hcd,\h43,\hb3,\h9f,\h03,\h43,\ha5,\h00,\h08,\hbf,\h6c,\hce,\ha9,\hd1,\h32,\h31,\hd9,\he7,\he2,\he1,\he4>>,
   s |-> <<\h11,\hed,\hc8,\hd3,\h07,\h25,\h42,\h96,\h26,\h4a,\heb,\hfc,\h3d,\hc7,\h6c,\hd8,\hb6,\h68,\h37,\h3a,\h07,\h2f,\hd6,\h46,\h65,\hb5,\h00,\h00,\he9,\hfc,\hce,\h52>>,
   x |-> <<\h79,\hbe,\h66,\h7e,\hf9,\hdc,\hbb,\hac,\h55,\ha0,\h62,\h95,\hce,\h87,\h0b,\h07,\h02,\h9b,\hfc,\hdb,\h2d,\hce,\h28,\hd9,\h59,\hf2,\h81,\h5b,\h16,\hf8,\h17,\h98>>,
   y |-> <<\h48,\h3a,\hda,\h77,\h26,\ha3,\hc4,\h65,\h5d,\ha4,\hfb,\hfc,\h0e,\h11,\h08,\ha8,\hfd,\h17,\hb4,\h48,\ha6,\h85,\h54,\h19,\h9c,\h47,\hd0,\h8f,\hfb,\h10,\hd4,\hb8>>],
  [msg32 |-> Digest1, recid |-> 0,
   r |-> <<\h66,\h73,\hff,\had,\h21,\h47,\h74,\h1f,\h04,\h77,\h2b,\h6f,\h92,\h1f,\h0b,\ha6,\haf,\h0c,\h1e,\h77,\hfc,\h43,\h9e,\h65,\hc3,\h6d,\hed,\hf4,\h09,\h2e,\h88,\h98>>,
   s |-> <<\h4c,\h1a,\h97,\h16,\h52,\he0,\had,\ha8,\h80,\h12,\h0e,\hf8,\h02,\h5e,\h70,\h9f,\hff,\h20,\h80,\hc4,\ha3,\h9a,\hae,\h06,\h8d,\h12,\hee,\hd0,\h09,\hb6,\h8c,\h89>>,
   x |-> <<\h6d,\h06,\hdb,\h7e,\h8a,\h8c,\h1a,\h27,\h7f,\h8d,\h0b,\h64,\h39,\hfe,\h9e,\haa,\h7c,\h38,\h40,\hfc,\h7e,\ha3,\h93,\h5e,\h92,\h98,\hbd,\h95,\hc8,\h85,\h28,\h8a>>,
   y |-> <<\hbb,\h2d,\hcd,\h49,\hcb,\hdd,\h28,\hfe,\h12,\h06,\h45,\hc7,\h09,\hd1,\h2b,\hee,\he3,\hbf,\h31,\h2c,\he1,\h59,\h9e,\h28,\h69,\h77,\h5f,\h20,\hb8,\h7a,\h9b,\ha4>>],
  [msg32 |-> Digest1, recid |-> 1,
   r |-> <<\h66,\h73,\hff,\had,\h21,\h47,\h74,\h1f,\h04,\h77,\h2b,\h6f,\h92,\h1f,\h0b,\ha6,\haf,\h0c,\h1e,\h77,\hfc,\h43,\h9e,\h65,\hc3,\h6d,\hed,\hf4,\h09,\h2e,\h88,\h98>>,
   s |-> <<\h4c,\h1a,\h97,\h16,\h52,\he0,\had,\ha8,\h80,\h12,\h0e,\hf8,\h02,\h5e,\h70,\h9f,\hff,\h20,\h80,\hc4,\ha3,\h9a,\hae,\h06,\h8d,\h12,\hee,\hd0,\h09,\hb6,\h8c,\h89>>,
   x |-> <<\h79,\hbe,\h66,\h7e,\hf9,\hdc,\hbb,\hac,\h55,\ha0,\h62,\h95,\hce,\h87,\h0b,\h07,\h02,\h9b,\hfc,\hdb,\h2d,\hce,\h28,\hd9,\h59,\hf2,\h81,\h5b,\h16,\hf8,\h17,\h98>>,
   y |-> <<\h48,\h3a,\hda,\h77,\h26,\ha3,\hc4,\h65,\h5d,\ha4,\hfb,\hfc,\h0e,\h11,\h08,\ha8,\hfd,\h17,\hb4,\h48,\ha6,\h85,\h54,\h19,\h9c,\h47,\hd0,\h8f,\hfb,\h10,\hd4,\hb8>>],
  [msg32 |-> Digest118, recid |-> 0,
   r |-> <<\h5b,\h68,\h70,\hc4,\hbc,\h86,\h4d,\h55,\h84,\hb0,\h56,\hf0,\h82,\h97,\h69,\h3f,\had,\h26,\heb,\hba,\h15,\hc4,\h5e,\h21,\he5,\h00,\hd0,\h74,\hc7,\h96,\h8f,\h8d>>,
   s |-> <<\h50,\he8,\h44,\hfd,\hcf,\h0a,\h71,\hfe,\h4b,\h62,\h5a,\hcf,\hcd,\ha4,\h0b,\ha1,\hbe,\h8d,\h21,\hcd,\h15,\h3c,\h04,\h7a,\hc1,\hd1,\hcb,\hff,\hd5,\h4c,\hd3,\hfb>>,
   x |-> <<\he3,\h9b,\hf8,\h2c,\h3e,\h82,\h4a,\h3d,\h9d,\h79,\h3a,\h76,\hec,\h96,\hfb,\h2b,\he7,\h53,\hf9,\hed,\hcb,\hc6,\h98,\h09,\h8f,\hf6,\h18,\hfd,\he5,\h1a,\h56,\h95>>,
   y |-> <<\hd1,\hd1,\h68,\h05,\ha9,\hd6,\h59,\hba,\heb,\h1d,\h3e,\h5a,\h84,\h7c,\h8a,\h13,\h16,\h15,\hfe,\h83,\hb9,\hf2,\h97,\hfc,\h22,\hdb,\h2e,\hcc,\hce,\hc9,\h03,\h0f>>],
  [msg32 |-> Digest118, recid |-> 1,
   r |-> <<\h5b,\h68,\h70,\hc4,\hbc,\h86,\h4d,\h55,\h84,\hb0,\h56,\hf0,\h82,\h97,\h69,\h3f,\had,\h26,\heb,\hba,\h15,\hc4,\h5e,\h21,\he5,\h00,\hd0,\h74,\hc7,\h96,\h8f,\h8d>>,
   s |-> <<\h50,\he8,\h44,\hfd,\hcf,\h0a,\h71,\hfe,\h4b,\h62,\h5a,\hcf,\hcd,\ha4,\h0b,\ha1,\hbe,\h8d,\h21,\hcd,\h15,\h3c,\h04,\h7a,\hc1,\hd1,\hcb,\hff,\hd5,\h4c,\hd3,\hfb>>,
   x |-> <<\h79,\hbe,\h66,\h7e,\hf9,\hdc,\hbb,\hac,\h55,\ha0,\h62,\h95,\hce,\h87,\h0b,\h07,\h02,\h9b,\hfc,\hdb,\h2d,\hce,\h28,\hd9,\h59,\hf2,\h81,\h5b,\h16,\hf8,\h17,\h98>>,
   y |-> <<\h48,\h3a,\hda,\h77,\h26,\ha3,\hc4,\h65,\h5d,\ha4,\hfb,\hfc,\h0e,\h11,\h08,\ha8,\hfd,\h17,\hb4,\h48,\ha6,\h85,\h54,\h19,\h9c,\h47,\hd0,\h8f,\hfb,\h10,\hd4,\hb8>>],
  [msg32 |-> Digest120, recid |-> 0,
   r |-> <<\hd3,\hcf,\h46,\he3,\hac,\h00,\ha5,\he4,\hb1,\hc7,\h8a,\h08,\h50,\h7f,\hab,\h8c,\hb7,\h98,\h87,\h26,\hd0,\h99,\h20,\hc6,\h9d,\h72,\h4c,\h8b,\h7e,\h8e,\hf4,\hca>>,
   s |-> <<\h01,\h81,\h42,\h32,\haa,\hd3,\h52,\ha9,\h7c,\h02,\h86,\h40,\h17,\hb3,\h05,\h3f,\hd5,\hdb,\h3a,\hda,\ha3,\hde,\hc7,\hf0,\h94,\hd3,\h3a,\h19,\h1b,\h90,\he3,\h65>>,
   x |-> <<\h12,\h64,\h70,\h15,\h27,\h55,\hd2,\h90,\h7c,\hec,\ha2,\h6c,\h14,\hde,\h64,\h6a,\hbd,\h90,\hf3,\h8a,\hb7,\h09,\hb8,\h4f,\hc4,\h48,\h8d,\h87,\hd7,\h59,\hf9,\hfc>>,
   y |-> <<\hc0,\hbf,\hdc,\hb2,\hc8,\haa,\h9e,\h97,\h36,\h59,\hd3,\h1e,\hc0,\h54,\ha3,\hee,\h4a,\h25,\hd4,\hd1,\h09,\h14,\h24,\h5b,\hea,\h8a,\hb2,\h05,\h6a,\h8c,\h44,\h84>>],
  [msg32 |-> Digest120, recid |-> 1,
   r |-> <<\hd3,\hcf,\h46,\he3,\hac,\h00,\ha5,\he4,\hb1,\hc7,\h8a,\h08,\h50,\h7f,\hab,\h8c,\hb7,\h98,\h87,\h26,\hd0,\h99,\h20,\hc6,\h9d,\h72,\h4c,\h8b,\h7e,\h8e,\hf4,\hca>>,
   s |-> <<\h01,\h81,\h42,\h32,\haa,\hd3,\h52,\ha9,\h7c,\h02,\h86,\h40,\h17,\hb3,\h05,\h3f,\hd5,\hdb,\h3a,\hda,\ha3,\hde,\hc7,\hf0,\h94,\hd3,\h3a,\h19,\h1b,\h90,\he3,\h65>>,
   x |-> <<\h79,\hbe,\h66,\h7e,\hf9,\hdc,\hbb,\hac,\h55,\ha0,\h62,\h95,\hce,\h87,\h0b,\h07,\h02,\h9b,\hfc,\hdb,\h2d,\hce,\h28,\hd9,\h59,\hf2,\h81,\h5b,\h16,\hf8,\h17,\h98>>,
   y |-> <<\h48,\h3a,\hda,\h77,\h26,\ha3,\hc4,\h65,\h5d,\ha4,\hfb,\hfc,\h0e,\h11,\h08,\ha8,\hfd,\h17,\hb4,\h48,\ha6,\h85,\h54,\h19,\h9c,\h47,\hd0,\h8f,\hfb,\h10,\hd4,\hb8>>],
  [msg32 |-> Digest0, recid |-> 0,
   r |-> <<\h91,\h90,\h26,\hf3,\he2,\h39,\hea,\h52,\hcf,\h53,\h0e,\hb6,\hd3,\h45,\hdc,\h2b,\h56,\hef,\h09,\h28,\hf1,\he9,\had,\h20,\hd8,\hf3,\h60,\h28,\h4d,\hc6,\h50,\h48>>,
   s |-> <<\h14,\h39,\h5e,\h71,\h37,\he2,\h20,\h4f,\h15,\hb6,\h92,\h39,\h01,\h0f,\h3c,\h34,\hfb,\hb3,\hc8,\h58,\ha2,\h9b,\h0d,\h10,\h6b,\h1f,\ha6,\h5b,\hc0,\h04,\h72,\h63>>,
   x |-> <<\h79,\hbe,\h66,\h7e,\hf9,\hdc,\hbb,\hac,\h55,\ha0,\h62,\h95,\hce,\h87,\h0b,\h07,\h02,\h9b,\hfc,\hdb,\h2d,\hce,\h28,\hd9,\h59,\hf2,\h81,\h5b,\h16,\hf8,\h17,\h98>>,
   y |-> <<\hb7,\hc5,\h25,\h88,\hd9,\h5c,\h3b,\h9a,\ha2,\h5b,\h04,\h03,\hf1,\hee,\hf7,\h57,\h02,\he8,\h4b,\hb7,\h59,\h7a,\hab,\he6,\h63,\hb8,\h2f,\h6f,\h04,\hef,\h27,\h77>>],
  [msg32 |-> Digest0, recid |-> 1,
   r |-> <<\h91,\h90,\h26,\hf3,\he2,\h39,\hea,\h52,\hcf,\h53,\h0e,\hb6,\hd3,\h45,\hdc,\h2b,\h56,\hef,\h09,\h28,\hf1,\he9,\had,\h20,\hd8,\hf3,\h60,\h28,\h4d,\hc6,\h50,\h48>>,
   s |-> <<\h14,\h39,\h5e,\h71,\h37,\he2,\h20,\h4f,\h15,\hb6,\h92,\h39,\h01,\h0f,\h3c,\h34,\hfb,\hb3,\hc8,\h58,\ha2,\h9b,\h0d,\h10,\h6b,\h1f,\ha6,\h5b,\hc0,\h04,\h72,\h63>>,
   x |-> <<\h79,\hbe,\h66,\h7e,\hf9,\hdc,\hbb,\hac,\h55,\ha0,\h62,\h95,\hce,\h87,\h0b,\h07,\h02,\h9b,\hfc,\hdb,\h2d,\hce,\h28,\hd9,\h59,\hf2,\h81,\h5b,\h16,\hf8,\h17,\h98>>,
   y |-> <<\h48,\h3a,\hda,\h77,\h26,\ha3,\hc4,\h65,\h5d,\ha4,\hfb,\hfc,\h0e,\h11,\h08,\ha8,\hfd,\h17,\hb4,\h48,\ha6,\h85,\h54,\h19,\h9c,\h47,\hd0,\h8f,\hfb,\h10,\hd4,\hb8>>],
  [msg32 |-> Digest1, recid |-> 0,
   r |-> <<\hea,\ha0,\h3e,\h6c,\h5c,\hc8,\h15,\hdd,\h7c,\hee,\h2e,\h11,\h46,\h0d,\hf5,\h1a,\h04,\hbf,\hd9,\hb3,\h16,\h9a,\ha6,\h3f,\h73,\h5c,\h95,\hdc,\hf6,\h23,\hc9,\h5d>>,
   s |-> <<\h19,\h2b,\hf1,\h70,\he5,\h28,\h4e,\hfe,\hfd,\hb0,\hd8,\hce,\h14,\h87,\h59,\ha4,\h8a,\hda,\h55,\h3b,\hd9,\h29,\hd3,\hde,\hda,\h54,\h51,\hde,\hcf,\ha5,\hc7,\h0e>>,
   x |-> <<\h11,\h79,\h1f,\h27,\hdf,\h85,\h53,\h05,\h69,\hfa,\h45,\h52,\h0c,\h21,\h38,\h34,\h3a,\hb1,\h2e,\hfc,\hea,\hf7,\hac,\hb8,\h13,\h19,\hd5,\he9,\he7,\h04,\hab,\hec>>,
   y |-> <<\h23,\ha3,\h41,\h9a,\h7a,\h30,\h32,\he7,\hb9,\hd3,\h24,\ha8,\hd0,\h99,\hfe,\hbb,\h14,\h43,\he8,\h9a,\h71,\ha4,\h1e,\h5c,\hef,\hc4,\h8f,\h0c,\hec,\h8a,\hd6,\h62>>],
  [msg32 |-> Digest1, recid |-> 1,
   r |-> <<\hea,\ha0,\h3e,\h6c,\h5c,\hc8,\h15,\hdd,\h7c,\hee,\h2e,\h11,\h46,\h0d,\hf5,\h1a,\h04,\hbf,\hd9,\hb3,\h16,\h9a,\ha6,\h3f,\h73,\h5c,\h95,\hdc,\hf6,\h23,\hc9,\h5d>>,
   s |-> <<\h19,\h2b,\hf1,\h70,\he5,\h28,\h4e,\hfe,\hfd,\hb0,\hd8,\hce,\h14,\h87,\h59,\ha4,\h8a,\hda,\h55,\h3b,\hd9,\h29,\hd3,\hde,\hda,\h54,\h51,\hde,\hcf,\ha5,\hc7,\h0e>>,
   x |-> <<\h79,\hbe,\h66,\h7e,\hf9,\hdc,\hbb,\hac,\h55,\ha0,\h62,\h95,\hce,\h87,\h0b,\h07,\h02,\h9b,\hfc,\hdb,\h2d,\hce,\h28,\hd9,\h59,\hf2,\h81,\h5b,\h16,\hf8,\h17,\h98>>,
   y |-> <<\hb7,\hc5,\h25,\h88,\hd9,\h5c,\h3b,\h9a,\ha2,\h5b,\h04,\h03,\hf1,\hee,\hf7,\h57,\h02,\he8,\h4b,\hb7,\h59,\h7a,\hab,\he6,\h63,\hb8,\h2f,\h6f,\h04,\hef,\h27,\h77>>],
  [msg32 |-> Digest118, recid |-> 0,
   r |-> <<\h92,\hef,\hff,\hc2,\h5c,\h6c,\hec,\h55,\hb9,\h69,\h20,\h50,\he5,\h55,\h90,\he4,\h33,\h54,\h58,\ha7,\h70,\h9a,\h54,\he3,\h5d,\h74,\h47,\h12,\h35,\h3b,\h17,\h72>>,
   s |-> <<\h47,\h66,\h6f,\h68,\hab,\h95,\hdc,\h36,\h36,\h64,\ha7,\hf0,\hd3,\h7f,\h2c,\hb2,\h93,\hd6,\h17,\h46,\h6b,\hef,\h95,\h72,\h34,\h1e,\h18,\hb8,\h3e,\h06,\hca,\h86>>,
   x |-> <<\h79,\hbe,\h66,\h7e,\hf9,\hdc,\hbb,\hac,\h55,\ha0,\h62,\h95,\hce,\h87,\h0b,\h07,\h02,\h9b,\hfc,\hdb,\h2d,\hce,\h28,\hd9,\h59,\hf2,\h81,\h5b,\h16,\hf8,\h17,\h98>>,
   y |-> <<\hb7,\hc5,\h25,\h88,\hd9,\h5c,\h3b,\h9a,\ha2,\h5b,\h04,\h03,\hf1,\hee,\hf7,\h57,\h02,\he8,\h4b,\hb7,\h59,\h7a,\hab,\he6,\h63,\hb8,\h2f,\h6f,\h04,\hef,\h27,\h77>>],
  [msg32 |-> Digest118, recid |-> 1,
   r |-> <<\h92,\hef,\hff,\hc2,\h5c,\h6c,\hec,\h55,\hb9,\h69,\h20,\h50,\he5,\h55,\h90,\he4,\h33,\h54,\h58,\ha7,\h70,\h9a,\h54,\he3,\h5d,\h74,\h47,\h12,\h35,\h3b,\h17,\h72>>,
   s |-> <<\h47,\h66,\h6f,\h68,\hab,\h95,\hdc,\h36,\h36,\h64,\ha7,\hf0,\hd3,\h7f,\h2c,\hb2,\h93,\hd6,\h17,\h46,\h6b,\hef,\h95,\h72,\h34,\h1e,\h18,\hb8,\h3e,\h06,\hca,\h86>>,
   x |-> <<\h1d,\h55,\h4a,\ha1,\h70,\h90,\h0c,\h53,\h9b,\hd1,\h8f,\hb6,\h5d,\ha8,\h02,\h9c,\h16,\h6c,\h41,\h01,\hc7,\hb7,\he2,\h41,\h70,\h06,\h8d,\h95,\h2d,\hac,\hba,\h5f>>,
   y |-> <<\h2c,\h04,\h66,\hf8,\he1,\h85,\h6f,\h8c,\h4c,\h13,\h40,\h29,\h27,\h45,\h7e,\hc7,\hd2,\h04,\h26,\h5a,\h71,\he7,\h8b,\h47,\hc5,\h77,\h64,\h42,\h91,\h0c,\h95,\h8a>>],
  [msg32 |-> Digest120, recid |-> 0,
   r |-> <<\h4c,\h84,\hd7,\h6f,\h3f,\hd8,\h97,\h0c,\hfd,\h6f,\h23,\h04,\h5d,\hb8,\h40,\h39,\h4a,\h16,\h5e,\h45,\h26,\h0d,\h9b,\h49,\hfa,\hd6,\h3d,\h33,\hbd,\hbc,\h20,\h6c>>,
   s |-> <<\h75,\h54,\h71,\h16,\h99,\h86,\hca,\hb9,\he1,\h92,\hc6,\h31,\hf8,\hd7,\hd5,\hdd,\hbd,\h6f,\hed,\h03,\ha3,\h90,\hac,\h87,\hba,\hbb,\hfb,\h79,\h1f,\h22,\h5f,\h43>>,
   x |-> <<\he0,\h07,\h8b,\hde,\h30,\h3f,\h58,\hfd,\h4e,\hf0,\hce,\hc5,\h2f,\h0f,\hef,\ha8,\hac,\hda,\h83,\h65,\hfc,\hb5,\h0b,\ha3,\h05,\ha8,\h55,\he6,\h7c,\h5c,\heb,\h8d>>,
   y |-> <<\hd4,\hd7,\hbc,\hbd,\h0c,\ha0,\h95,\h8b,\h91,\h7a,\h35,\h96,\h20,\hcd,\h64,\h28,\hb8,\hc9,\hcc,\h51,\h3a,\hb8,\h12,\h30,\h87,\h6f,\ha6,\h7c,\h92,\h3f,\hdb,\h1a>>],
  [msg32 |-> Digest120, recid |-> 1,
   r |-> <<\h4c,\h84,\hd7,\h6f,\h3f,\hd8,\h97,\h0c,\hfd,\h6f,\h23,\h04,\h5d,\hb8,\h40,\h39,\h4a,\h16,\h5e,\h45,\h26,\h0d,\h9b,\h49,\hfa,\hd6,\h3d,\h33,\hbd,\hbc,\h20,\h6c>>,
   s |-> <<\h75,\h54,\h71,\h16,\h99,\h86,\hca,\hb9,\he1,\h92,\hc6,\h31,\hf8,\hd7,\hd5,\hdd,\hbd,\h6f,\hed,\h03,\ha3,\h90,\hac,\h87,\hba,\hbb,\hfb,\h79,\h1f,\h22,\h5f,\h43>>,
   x |-> <<\h79,\hbe,\h66,\h7e,\hf9,\hdc,\hbb,\hac,\h55,\ha0,\h62,\h95,\hce,\h87,\h0b,\h07,\h02,\h9b,\hfc,\hdb,\h2d,\hce,\h28,\hd9,\h59,\hf2,\h81,\h5b,\h16,\hf8,\h17,\h98>>,
   y |-> <<\hb7,\hc5,\h25,\h88,\hd9,\h5c,\h3b,\h9a,\ha2,\h5b,\h04,\h03,\hf1,\hee,\hf7,\h57,\h02,\he8,\h4b,\hb7,\h59,\h7a,\hab,\he6,\h63,\hb8,\h2f,\h6f,\h04,\hef,\h27,\h77>>],
  [msg32 |-> Digest0, recid |-> 0,
   r |-> <<\hb4,\hd8,\haa,\h58,\h0d,\h8b,\hef,\hed,\ha7,\ha7,\h3a,\hed,\h10,\h1e,\h34,\hff,\h83,\h85,\hda,\h94,\hfd,\h4c,\h2d,\hfb,\had,\hb1,\h1f,\h3e,\hf6,\h2e,\hdc,\hd3>>,
   s |-> <<\h6c,\h52,\h63,\heb,\ha1,\h8b,\h60,\h34,\h9b,\h39,\ha9,\h6b,\hfb,\ha0,\heb,\hc5,\h7a,\he5,\hca,\h06,\h76,\he3,\ha5,\hc4,\hb3,\h7d,\hd6,\hd9,\h20,\h80,\hf8,\hcc>>,
   x |-> <<\h4e,\h3b,\h81,\haf,\h9c,\h22,\h34,\hca,\hd0,\h9d,\h67,\h9c,\he6,\h03,\h5e,\hd1,\h39,\h23,\h47,\hce,\h64,\hce,\h40,\h5f,\h5d,\hcd,\h36,\h22,\h8a,\h25,\hde,\h6e>>,
   y |-> <<\h47,\hfd,\h35,\hc4,\h21,\h5d,\h1e,\hdf,\h53,\he6,\hf8,\h3d,\he3,\h44,\h61,\h5c,\he7,\h19,\hbd,\hb0,\hfd,\h87,\h8f,\h6e,\hd7,\h6f,\h06,\hdd,\h27,\h79,\h56,\hde>>],
  [msg32 |-> Digest0, recid |-> 1,
   r |-> <<\hb4,\hd8,\haa,\h58,\h0d,\h8b,\hef,\hed,\ha7,\ha7,\h3a,\hed,\h10,\h1e,\h34,\hff,\h83,\h85,\hda,\h94,\hfd,\h4c,\h2d,\hfb,\had,\hb1,\h1f,\h3e,\hf6,\h2e,\hdc,\hd3>>,
   s |-> <<\h6c,\h52,\h63,\heb,\ha1,\h8b,\h60,\h34,\h9b,\h39,\ha9,\h6b,\hfb,\ha0,\heb,\hc5,\h7a,\he5,\hca,\h06,\h76,\he3,\ha5,\hc4,\hb3,\h7d,\hd6,\hd9,\h20,\h80,\hf8,\hcc>>,
   x |-> <<\h4e,\h3b,\h81,\haf,\h9c,\h22,\h34,\hca,\hd0,\h9d,\h67,\h9c,\he6,\h03,\h5e,\hd1,\h39,\h23,\h47,\hce,\h64,\hce,\h40,\h5f,\h5d,\hcd,\h36,\h22,\h8a,\h25,\hde,\h6e>>,
   y |-> <<\hb8,\h02,\hca,\h3b,\hde,\ha2,\he1,\h20,\hac,\h19,\h07,\hc2,\h1c,\hbb,\h9e,\ha3,\h18,\he6,\h42,\h4f,\h02,\h78,\h70,\h91,\h28,\h90,\hf9,\h21,\hd8,\h86,\ha5,\h51>>],
  [msg32 |-> Digest1, recid |-> 0,
   r |-> <<\ha2,\h80,\h77,\hf3,\h9b,\hc8,\hff,\h27,\h48,\h23,\h98,\h3f,\h7c,\h9c,\h9a,\h06,\he4,\h06,\h74,\h08,\h91,\h0e,\h27,\h33,\ha4,\h08,\h64,\hf9,\he6,\h70,\he3,\h63>>,
   s |-> <<\h7f,\ha1,\h4f,\h83,\h47,\ha7,\h1e,\had,\hdb,\h73,\h1a,\h81,\h12,\hc9,\hc9,\h28,\h1a,\h2d,\he6,\hd4,\h15,\hc3,\h75,\he1,\hb8,\h11,\h19,\h44,\h1c,\h6c,\hdd,\h43>>,
   x |-> <<\h66,\ha0,\h62,\h75,\h35,\hb8,\h71,\hba,\h3c,\hcb,\ha9,\h1f,\h77,\hdb,\hcd,\h6d,\hb8,\h50,\h14,\h21,\h38,\hee,\h80,\h4e,\had,\h52,\hbe,\h93,\hf3,\h5b,\h69,\h67>>,
   y |-> <<\haa,\hf5,\h51,\h29,\h21,\he3,\h31,\hb6,\h08,\hb2,\h33,\h3e,\hed,\heb,\h55,\h21,\hc7,\h63,\h3b,\h89,\h2d,\hf8,\h96,\h5e,\h19,\h76,\hcb,\hbf,\h52,\hac,\h05,\hd9>>],
  [msg32 |-> Digest1, recid |-> 1,
   r |-> <<\ha2,\h80,\h77,\hf3,\h9b,\hc8,\hff,\h27,\h48,\h23,\h98,\h3f,\h7c,\h9c,\h9a,\h06,\he4,\h06,\h74,\h08,\h91,\h0e,\h27,\h33,\ha4,\h08,\h64,\hf9,\he6,\h70,\he3,\h63>>,
   s |-> <<\h7f,\ha1,\h4f,\h83,\h47,\ha7,\h1e,\had,\hdb,\h73,\h1a,\h81,\h12,\hc9,\hc9,\h28,\h1a,\h2d,\he6,\hd4,\h15,\hc3,\h75,\he1,\hb8,\h11,\h19,\h44,\h1c,\h6c,\hdd,\h43>>,
   x |-> <<\h4e,\h3b,\h81,\haf,\h9c,\h22,\h34,\hca,\hd0,\h9d,\h67,\h9c,\he6,\h03,\h5e,\hd1,\h39,\h23,\h47,\hce,\h64,\hce,\h40,\h5f,\h5d,\hcd,\h36,\h22,\h8a,\h25,\hde,\h6e>>,
   y |-> <<\h47,\hfd,\h35,\hc4,\h21,\h5d,\h1e,\hdf,\h53,\he6,\hf8,\h3d,\he3,\h44,\h61,\h5c,\he7,\h19,\hbd,\hb0,\hfd,\h87,\h8f,\h6e,\hd7,\h6f,\h06,\hdd,\h27,\h79,\h56,\hde>>],
  [msg32 |-> Digest118, recid |-> 0,
   r |-> <<\he2,\hd5,\h3f,\hcd,\hbc,\h8f,\hf2,\h2e,\h9a,\ha3,\hf3,\h2f,\hde,\h73,\hd0,\h1b,\h4c,\h23,\h2f,\heb,\h42,\hfe,\hda,\he8,\h10,\h4f,\hcc,\h8b,\ha8,\hde,\h11,\h49>>,
   s |-> <<\h00,\h70,\h69,\heb,\he3,\hd5,\h2a,\h3c,\he7,\hc6,\h8e,\h2d,\h1b,\ha6,\h7f,\h9c,\h0c,\hea,\ha5,\h4d,\hc6,\hd2,\h1e,\hc0,\hbf,\ha5,\ha5,\h6a,\h6e,\h64,\h1e,\h26>>,
   x |-> <<\h90,\hf9,\h1e,\h7a,\h35,\h33,\h9e,\h26,\h5e,\hff,\h13,\hb6,\h22,\hd7,\h40,\h3c,\hbc,\h62,\h4a,\h47,\h27,\hff,\h78,\hf7,\h45,\ha3,\h48,\hd0,\h51,\hb1,\h9d,\h78>>,
   y |-> <<\h9e,\h7b,\hc0,\h91,\hc7,\h8c,\hfb,\h77,\h9c,\h9b,\he1,\h12,\h16,\hb0,\h8d,\h0d,\hb8,\ha4,\hfd,\hf7,\h53,\hd1,\h7d,\hc6,\h45,\hdf,\h13,\h1c,\h87,\h4f,\ha4,\h9b>>],
  [msg32 |-> Digest118, recid |-> 1,
   r |-> <<\he2,\hd5,\h3f,\hcd,\hbc,\h8f,\hf2,\h2e,\h9a,\ha3,\hf3,\h2f,\hde,\h73,\hd0,\h1b,\h4c,\h23,\h2f,\heb,\h42,\hfe,\hda,\he8,\h10,\h4f,\hcc,\h8b,\ha8,\hde,\h11,\h49>>,
   s |-> <<\h00,\h70,\h69,\heb,\he3,\hd5,\h2a,\h3c,\he7,\hc6,\h8e,\h2d,\h1b,\ha6,\h7f,\h9c,\h0c,\hea,\ha5,\h4d,\hc6,\hd2,\h1e,\hc0,\hbf,\ha5,\ha5,\h6a,\h6e,\h64,\h1e,\h26>>,
   x |-> <<\h4e,\h3b,\h81,\haf,\h9c,\h22,\h34,\hca,\hd0,\h9d,\h67,\h9c,\he6,\h03,\h5e,\hd1,\h39,\h23,\h47,\hce,\h64,\hce,\h40,\h5f,\h5d,\hcd,\h36,\h22,\h8a,\h25,\hde,\h6e>>,
   y |-> <<\h47,\hfd,\h35,\hc4,\h21,\h5d,\h1e,\hdf,\h53,\he6,\hf8,\h3d,\he3,\h44,\h61,\h5c,\he7,\h19,\hbd,\hb0,\hfd,\h87,\h8f,\h6e,\hd7,\h6f,\h06,\hdd,\h27,\h79,\h56,\hde>>],
  [msg32 |-> Digest120, recid |-> 0,
   r |-> <<\h00,\h6a,\h95,\hac,\h0c,\hc5,\h44,\hce,\hf1,\hdd,\h8a,\ha1,\hd0,\h04,\h30,\h85,\h00,\hde,\h11,\hd8,\ha6,\hf2,\hae,\h36,\h5f,\h47,\h35,\h7a,\h3b,\h72,\hcb,\hb5>>,
   s |-> <<\h0e,\hc8,\h2b,\h00,\h24,\h29,\h6e,\h89,\hcd,\hde,\h52,\hde,\hef,\h3f,\h4f,\h4f,\h78,\he3,\h18,\h07,\hbf,\h84,\hb6,\h0f,\h06,\h13,\h15,\h02,\hcb,\h01,\h07,\h91>>,
   x |-> <<\h4e,\h3b,\h81,\haf,\h9c,\h22,\h34,\hca,\hd0,\h9d,\h67,\h9c,\he6,\h03,\h5e,\hd1,\h39,\h23,\h47,\hce,\h64,\hce,\h40,\h5f,\h5d,\hcd,\h36,\h22,\h8a,\h25,\hde,\h6e>>,
   y |-> <<\h47,\hfd,\h35,\hc4,\h21,\h5d,\h1e,\hdf,\h53,\he6,\hf8,\h3d,\he3,\h44,\h61,\h5c,\he7,\h19,\hbd,\hb0,\hfd,\h87,\h8f,\h6e,\hd7,\h6f,\h06,\hdd,\h27,\h79,\h56,\hde>>],
  [msg32 |-> Digest120, recid |-> 1,
   r |-> <<\h00,\h6a,\h95,\hac,\h0c,\hc5,\h44,\hce,\hf1,\hdd,\h8a,\ha1,\hd0,\h04,\h30,\h85,\h00,\hde,\h11,\hd8,\ha6,\hf2,\hae,\h36,\h5f,\h47,\h35,\h7a,\h3b,\h72,\hcb,\hb5>>,
   s |-> <<\h0e,\hc8,\h2b,\h00,\h24,\h29,\h6e,\h89,\hcd,\hde,\h52,\hde,\hef,\h3f,\h4f,\h4f,\h78,\he3,\h18,\h07,\hbf,\h84,\hb6,\h0f,\h06,\h13,\h15,\h02,\hcb,\h01,\h07,\h91>>,
   x |-> <<\h83,\h8b,\h80,\h8a,\hc8,\hdd,\h3a,\h13,\h68,\h20,\he2,\h58,\h6c,\h6d,\hf7,\h8d,\h80,\h7b,\hf0,\hdb,\h1b,\h6c,\hb1,\h42,\h34,\ha6,\hd4,\ha8,\hf9,\h68,\h01,\h10>>,
   y |-> <<\hbc,\h7c,\h80,\h84,\hf8,\hd6,\h38,\h01,\h4e,\hb4,\h1d,\h39,\h00,\h9f,\h9d,\h3f,\ha0,\hd0,\h9e,\hb4,\hb1,\h3d,\h22,\hfb,\hac,\h45,\h81,\h66,\hf1,\h3c,\h19,\h10>>]}

(***************************************************************************)
(* Bytes, characters and big-endian comparison.                            *)
(***************************************************************************)
\* a character that is neither a hex digit nor a decimal digit, such as 'g'
NotADigit == 16

\* a buffer of k zero bytes ("= {0}" / the all-zero value)
Zeros(k) == [i \in 1..k |-> 0]

\* a buffer of k 0xff bytes
Ones(k) == [i \in 1..k |-> 255]

\* big-endian a < b for two strings of the same length
LexLess(a, b) ==
  \E i \in 1..Len(a) :
    /\ a[i] < b[i]
    /\ \A j \in 1..(i - 1) : a[j] = b[j]

\* the digits of a string without its leading zero digits
RECURSIVE StripLeadingZeros(_)
StripLeadingZeros(a) ==
  IF a # <<>> /\ a[1] = 0 THEN StripLeadingZeros(Tail(a)) ELSE a

\* sprintf("%02x") over a byte array: two lowercase hex digits per byte
sprintf_02x(bytes) ==
  [i \in 1..(2 * Len(bytes)) |->
     IF i % 2 = 1 THEN bytes[(i + 1) \div 2] \div 16
                  ELSE bytes[i \div 2] % 16]

(***************************************************************************)
(* GMP: a non-negative mpz_t is its hex digits without leading zeros.      *)
(***************************************************************************)
\* mpz_init; mpz_set_str(result, hex, 16): a string that is empty or holds
\* a non-digit is rejected (-1, ignored) and result keeps the 0 of mpz_init
hex_to_biginteger(hex) ==
  IF hex = <<>> \/ \E i \in 1..Len(hex) : hex[i] \notin 0..15
  THEN <<>>
  ELSE StripLeadingZeros(hex)

\* mpz_cmp: the sign of a - b
mpz_cmp(a, b) ==
  IF Len(a) # Len(b) THEN (IF Len(a) < Len(b) THEN -1 ELSE 1)
  ELSE IF a = b THEN 0
  ELSE IF LexLess(a, b) THEN -1 ELSE 1

\* the order n as a 64-character hex string
get_modulus == sprintf_02x(secp256k1_n)

\* is_valid of valid_private_R
valid_private_R(private_key_str) ==
  LET private_key == hex_to_biginteger(private_key_str)
      modulus     == hex_to_biginteger(get_modulus)
      one         == <<1>>
  IN  IF mpz_cmp(private_key, one) >= 0 /\ mpz_cmp(private_key, modulus) <= 0
      THEN 1 ELSE 0

(***************************************************************************)
(* Outcomes of a call.                                                     *)
(***************************************************************************)
NoCall == [kind |-> "none", val |-> <<>>, msg |-> ""]

\* error(...): the call is abandoned with an R error
RError(m) == [kind |-> "error", val |-> <<>>, msg |-> m]

\* ScalarInteger(v)
RInteger(v) == [kind |-> "integer", val |-> <<v>>, msg |-> ""]

\* Rf_warning(m); return ScalarInteger(0);
RWarningZero(m) == [kind |-> "integer", val |-> <<0>>, msg |-> m]

\* a raw vector
RRaw(bytes) == [kind |-> "raw", val |-> bytes, msg |-> ""]

\* a character vector of one string
RString(chars) == [kind |-> "character", val |-> chars, msg |-> ""]

\* a list of two raw vectors
RList(a, b) == [kind |-> "list", val |-> <<a, b>>, msg |-> ""]

(***************************************************************************)
(* Inputs of the model.                                                    *)
(***************************************************************************)
Keys == {KeyOne, KeyNMinus1, KeyMid}

Digests == {Digest0, Digest1, Digest118, Digest120}

\* n + 1 as 32 bytes
OrderPlus1 == [secp256k1_n EXCEPT ![32] = \h42]

ValidPrivateInputs ==
  {sprintf_02x(k) : k \in Keys \cup {Zeros(32), secp256k1_n, OrderPlus1, Ones(32)}}
  \cup {<<>>, <<0, 1>>, <<1>>, <<NotADigit, 1>>,
        sprintf_02x(<<0>> \o KeyOne), sprintf_02x(Tail(KeyMid)),
        sprintf_02x(Tail(KeyOne)), sprintf_02x(<<1>> \o Zeros(32))}

(***************************************************************************)
(* libsecp256k1, on the domain of the model.                               *)
(***************************************************************************)
NoPoint == [ok |-> 0, x |-> <<>>, y |-> <<>>]

\* secp256k1_ec_seckey_verify: 1 when 0 < seckey < n
secp256k1_ec_seckey_verify(key32) ==
  IF key32 # Zeros(32) /\ LexLess(key32, secp256k1_n) THEN 1 ELSE 0

\* secp256k1_ec_pubkey_create: the point seckey * G
secp256k1_ec_pubkey_create(key32) ==
  IF secp256k1_ec_seckey_verify(key32) = 0 THEN NoPoint
  ELSE LET e == CHOOSE q \in PubkeyTable : q.seckey = key32
       IN  [ok |-> 1, x |-> e.x, y |-> e.y]

\* secp256k1_ec_pubkey_serialize with SECP256K1_EC_COMPRESSED: 33 bytes
SerializeCompressed(point) == <<2 + (point.y[32] % 2)>> \o point.x

\* secp256k1_ecdsa_sign_recoverable with noncefp = NULL, ndata = NULL,
\* followed by ..._serialize_compact: (r, s, recid) of the RFC 6979 signature
secp256k1_ecdsa_sign_recoverable(msg32, key32) ==
  IF secp256k1_ec_seckey_verify(key32) = 0
  THEN [ok |-> 0, r |-> <<>>, s |-> <<>>, recid |-> 0]
  ELSE LET e == CHOOSE t \in SignTable : t.seckey = key32 /\ t.msg32 = msg32
       IN  [ok |-> 1, r |-> e.r, s |-> e.s, recid |-> e.recid]

\* the content bytes of a DER INTEGER: a zero byte in front, then leading
\* bytes dropped while the next byte keeps the value non-negative
RECURSIVE DerStrip(_)
DerStrip(b) ==
  IF Len(b) > 1 /\ b[1] = 0 /\ b[2] < 128 THEN DerStrip(Tail(b)) ELSE b

DerInteger(v32) == LET c == DerStrip(<<0>> \o v32) IN <<2, Len(c)>> \o c

\* secp256k1_ecdsa_signature_serialize_der into a buffer of `size` bytes
secp256k1_ecdsa_signature_serialize_der(r, s, size) ==
  LET body == DerInteger(r) \o DerInteger(s)
      out  == <<\h30, Len(body)>> \o body
  IN  IF size < Len(out) THEN [ok |-> 0, out |-> <<>>, len |-> Len(out)]
      ELSE [ok |-> 1, out |-> out, len |-> Len(out)]

\* secp256k1_ecdsa_recoverable_signature_parse_compact: fails when r or s
\* is not below n
secp256k1_ecdsa_recoverable_signature_parse_compact(input64, recid) ==
  LET r == SubSeq(input64, 1, 32)
      s == SubSeq(input64, 33, 64)
  IN  [ok |-> IF LexLess(r, secp256k1_n) /\ LexLess(s, secp256k1_n) THEN 1 ELSE 0,
       r |-> r, s |-> s, recid |-> recid]

\* secp256k1_ecdsa_recover: the possible results.  It fails for r = 0,
\* s = 0, and for recid >= 2 unless r < p - n.  For a signature of the table
\* the result is the tabulated point; for any other signature the model
\* allows both a failure and a point that is none of the model's keys.
secp256k1_ecdsa_recover(sig, msg32) ==
  LET hits == {t \in RecoverTable :
                 t.msg32 = msg32 /\ t.recid = sig.recid /\ t.r = sig.r /\ t.s = sig.s}
  IN  IF sig.r = Zeros(32) \/ sig.s = Zeros(32) THEN {NoPoint}
      ELSE IF sig.recid >= 2 /\ ~LexLess(sig.r, FieldMinusOrder) THEN {NoPoint}
      ELSE IF hits # {} THEN {[ok |-> 1, x |-> t.x, y |-> t.y] : t \in hits}
      ELSE {NoPoint, [ok |-> 1, x |-> OtherPoint.x, y |-> OtherPoint.y]}

(***************************************************************************)
(* sign_R_R                                                                *)
(***************************************************************************)
\* sizeof(der_signature)
DER_BUFFER_SIZE == 72

\* der_len left at sizeof(der_signature): the bytes behind the encoding are
\* copied too
der_len_unset(der) == DER_BUFFER_SIZE

\* der_len once secp256k1_ecdsa_signature_serialize_der has set it
der_len_of(der) == der.len

\* stk is what the 72 bytes of der_signature held before the call
sign_R_R(msg_hash, priv_key, stk) ==
  IF Len(msg_hash) # 32 \/ Len(priv_key) # 32
  THEN RError("msg_hash and priv_key must each be 32 bytes.")
  ELSE
    LET recoverable_sig == secp256k1_ecdsa_sign_recoverable(msg_hash, priv_key)
        recovery_id     == recoverable_sig.recid + 27
        der == secp256k1_ecdsa_signature_serialize_der(
                 recoverable_sig.r, recoverable_sig.s, DER_BUFFER_SIZE)
        der_signature == der.out \o SubSeq(stk, Len(der.out) + 1, DER_BUFFER_SIZE)
        der_len == der_len_of(der)
    IN  IF recoverable_sig.ok = 0
        THEN RError("Failed to generate recoverable signature")
        ELSE IF der.ok = 0
        THEN RError("Error encoding signature in DER format")
        ELSE RRaw(<<recovery_id>> \o SubSeq(der_signature, 1, der_len))

(***************************************************************************)
(* ecrecover_R                                                             *)
(***************************************************************************)
\* sizeof(signature)
SIGNATURE_BUFFER_SIZE == 71

\* sscanf(hex + 2 * i, "%2hhx", &bytes[i]): up to two hex digits are
\* converted; with no hex digit in front nothing is stored
sscanf_2hhx(c1, c2, old) ==
  IF c1 \notin 0..15 THEN old
  ELSE IF c2 \notin 0..15 THEN c1
  ELSE 16 * c1 + c2

\* hex_to_bytes: [ret, bytes]; bytes is the buffer after the call
hex_to_bytes(hex, bytes, bytes_len) ==
  LET hex_len == Len(hex)
  IN  IF hex_len % 2 # 0 \/ bytes_len < hex_len \div 2
      THEN [ret |-> 0, bytes |-> bytes]
      ELSE [ret |-> 1,
            bytes |-> [i \in 1..Len(bytes) |->
                         IF i <= hex_len \div 2
                         THEN sscanf_2hhx(hex[2 * i - 1], hex[2 * i], bytes[i])
                         ELSE bytes[i]]]

\* lines 415-472 of ecrecover_R, the gates in front of the library calls:
\* [msg, recovery_id, r_s_compact], msg the warning of the gate that failed
\* or "" when all were passed
ecrecover_decode(signature, signature_len) ==
  LET recovery_byte == signature[1]
      recovery_id   == recovery_byte - \h1b
      total_length  == signature[3]
      r_len         == signature[5]
      r_bytes       == Zeros(32 - r_len) \o SubSeq(signature, 6, 5 + r_len)
      s_offset      == 5 + r_len
      s_len         == signature[s_offset + 2]
      s_bytes       == Zeros(32 - s_len)
                         \o SubSeq(signature, s_offset + 3, s_offset + 2 + s_len)
      Fails(m)      == [msg |-> m, recovery_id |-> 0, r_s_compact |-> <<>>]
  IN  IF signature_len < 9
      THEN Fails("Invalid DER signature length.")
      ELSE IF recovery_byte < \h1b \/ recovery_byte > \h1e
      THEN Fails("Recovery byte should be between 0x1B and 0x1E.")
      ELSE IF signature[2] # \h30
      THEN Fails("Signature must be of type DER (0x30).")
      ELSE IF total_length + 3 # signature_len
      THEN Fails("Signature length mismatch.")
      ELSE IF signature[4] # \h02
      THEN Fails("R must be of type integer (0x02).")
      ELSE IF r_len > 32
      THEN Fails("R length exceeds 32 bytes.")
      ELSE IF signature[s_offset + 1] # \h02
      THEN Fails("S must be of type integer (0x02).")
      ELSE IF s_len > 32
      THEN Fails("S length exceeds 32 bytes.")
      ELSE [msg |-> "", recovery_id |-> recovery_id,
            r_s_compact |-> r_bytes \o s_bytes]

\* what ecrecover_R finds in signature[71] after hex_to_bytes, whose result
\* it does not look at; stk is what the buffer held before the call
ecrecover_signature(hex_signature, stk) ==
  hex_to_bytes(hex_signature, stk, SIGNATURE_BUFFER_SIZE).bytes

\* the number of leading bytes of signature[] that hex_to_bytes stored from
\* the input: none when it refuses the string, and none from the first pair
\* on for which sscanf stores nothing
ecrecover_filled(hex_signature) ==
  LET hex_len == Len(hex_signature)
      Stored(k) == \A i \in 1..k : hex_signature[2 * i - 1] \in 0..15
  IN  IF hex_to_bytes(hex_signature, Zeros(SIGNATURE_BUFFER_SIZE),
                      SIGNATURE_BUFFER_SIZE).ret = 0
      THEN 0
      ELSE CHOOSE k \in 0..(hex_len \div 2) :
             /\ Stored(k)
             /\ \A j \in (k + 1)..(hex_len \div 2) : ~Stored(j)

\* the C indices of signature[] that lines 415-468 of ecrecover_R read, gate
\* by gate: signature[0], [1], [2], [3], [4], the r_len bytes from [5],
\* [s_offset], [s_offset + 1] and the s_len bytes from [s_offset + 2]
ecrecover_reads(signature, signature_len) ==
  LET recovery_byte == signature[1]
      total_length  == signature[3]
      r_len         == signature[5]
      s_offset      == 5 + r_len
      s_len         == signature[s_offset + 2]
  IN  IF signature_len < 9 THEN {}
      ELSE IF recovery_byte < \h1b \/ recovery_byte > \h1e THEN {0}
      ELSE IF signature[2] # \h30 THEN 0..1
      ELSE IF total_length + 3 # signature_len THEN 0..2
      ELSE IF signature[4] # \h02 THEN 0..3
      ELSE IF r_len > 32 THEN 0..4
      ELSE IF signature[s_offset + 1] # \h02 THEN 0..s_offset
      ELSE IF s_len > 32 THEN 0..(s_offset + 1)
      ELSE 0..(s_offset + 1 + s_len)

\* the C indices of r_bytes[32] and s_bytes[32] that the two memcpy of
\* lines 454 and 468 write: [r, s]
ecrecover_writes(signature, signature_len) ==
  LET decoded  == ecrecover_decode(signature, signature_len)
      r_len    == signature[5]
      s_offset == 5 + r_len
      s_len    == signature[s_offset + 2]
      past_r   == decoded.msg \in {"", "S must be of type integer (0x02).",
                                   "S length exceeds 32 bytes."}
  IN  [r |-> IF past_r THEN (32 - r_len)..31 ELSE {},
       s |-> IF decoded.msg = "" THEN (32 - s_len)..31 ELSE {}]

\* the possible outcomes of ecrecover_R
ecrecover_R(hex_signature, hash, stk) ==
  LET signature     == ecrecover_signature(hex_signature, stk)
      signature_len == SIGNATURE_BUFFER_SIZE
      decoded       == ecrecover_decode(signature, signature_len)
      sig == secp256k1_ecdsa_recoverable_signature_parse_compact(
               decoded.r_s_compact, decoded.recovery_id)
  IN  IF decoded.msg # ""
      THEN {RWarningZero(decoded.msg)}
      ELSE IF sig.ok = 0
      THEN {RWarningZero("Failed to parse compact signature.")}
      ELSE {IF pubkey.ok = 0
            THEN RWarningZero("Failed to recover public key.")
            ELSE RRaw(SerializeCompressed(pubkey)) :
              pubkey \in secp256k1_ecdsa_recover(sig, hash)}

(***************************************************************************)
(* generate_seckey_R and generate_keypair_R                                *)
(***************************************************************************)
\* the tail of generate_seckey_R once the loop has left seckey valid
generate_seckey_R(key32) == RRaw(key32)

\* generate_keypair_R from the raw vector generate_seckey_R returned
generate_keypair_R(seckey_r) ==
  IF seckey_r.kind # "raw" \/ Len(seckey_r.val) # 32
  THEN RError("Invalid secret key length generated")
  ELSE
    LET key32         == seckey_r.val
        pubkey_struct == secp256k1_ec_pubkey_create(key32)
        pubkey        == SerializeCompressed(pubkey_struct)
        pubkey_len    == Len(pubkey)
    IN  IF pubkey_struct.ok = 0
        THEN RError("Failed to create public key")
        ELSE RList(key32, SubSeq(pubkey, 1, pubkey_len))

(***************************************************************************)
(* biginteger_to_bytes_R and biginteger_to_hex_R                           *)
(***************************************************************************)
\* the value of a string of decimal digits
RECURSIVE DecimalValue(_)
DecimalValue(str) ==
  IF str = <<>> THEN 0
  ELSE 10 * DecimalValue(SubSeq(str, 1, Len(str) - 1)) + str[Len(str)]

\* mpz_init_set_str(bn, str, 10): a string that is empty or holds a
\* non-digit is rejected (-1, ignored) and bn is initialised to 0
mpz_init_set_str(str) ==
  IF str = <<>> \/ \E i \in 1..Len(str) : str[i] \notin 0..9
  THEN 0
  ELSE DecimalValue(str)

\* the digits of v in the given base, most significant first; none for 0
RECURSIVE DigitsOf(_, _)
DigitsOf(v, base) ==
  IF v = 0 THEN <<>> ELSE Append(DigitsOf(v \div base, base), v % base)

\* mpz_export(bytes, &len, 1, 1, 1, 0, bn): big-endian bytes, len = 0 for 0
mpz_export(bn) == DigitsOf(bn, 256)

\* mpz_get_str(NULL, 16, bn): "0" for 0
mpz_get_str(bn) == IF bn = 0 THEN <<0>> ELSE DigitsOf(bn, 16)

biginteger_to_bytes_R(bn_str) ==
  LET bn    == mpz_init_set_str(bn_str)
      bytes == mpz_export(bn)
  IN  RRaw(bytes)

biginteger_to_hex_R(bn_str) ==
  LET bn         == mpz_init_set_str(bn_str)
      hex_string == mpz_get_str(bn)
      len        == Len(hex_string)
      final_hex  == IF len % 2 # 0 THEN <<0>> \o hex_string ELSE hex_string
  IN  RString(final_hex)

(***************************************************************************)
(* Inputs of sign_R_R and ecrecover_R.                                     *)
(***************************************************************************)
SignKeys == Keys \cup {Zeros(32), secp256k1_n, Tail(KeyMid)}

SignDigests == Digests \cup {Tail(Digest1)}

\* what der_signature[72] may hold before sign_R_R fills it
DerImages == {Zeros(72), Ones(72)}

\* the wire signature sign_R_R returns for a valid key and digest
SignedWire(msg32, key32) == sign_R_R(msg32, key32, Zeros(72)).val

SignedWires == {SignedWire(m, k) : m \in Digests, k \in Keys}

\* the signed ones that are varied: wire lengths 70, 71 and 72
VariedWires == {SignedWire(m, k) : m \in {Digest118, Digest120}, k \in Keys}

\* wire signatures handed to recover: the signed ones, and some of them with
\* another first byte, another SEQUENCE tag, the last byte cut, a byte added
WireInputs ==
  SignedWires
  \cup {[w EXCEPT ![1] = b] :
          w \in VariedWires, b \in {\h1a, \h1b, \h1c, \h1d, \h1e, \h1f}}
  \cup {[w EXCEPT ![2] = \h31] : w \in VariedWires}
  \cup {SubSeq(w, 1, Len(w) - 1) : w \in VariedWires}
  \cup {w \o <<0>> : w \in VariedWires}
  \cup {<<>>, <<\h1a>>, <<\h1b, \h30, 68>>}

\* the hex strings handed to ecrecover_R: the encodings of the wire
\* signatures, one of odd length and one with a character that is no digit
HexInputs ==
  {sprintf_02x(w) : w \in WireInputs}
  \cup {Tail(sprintf_02x(SignedWire(Digest1, KeyOne))),
        <<NotADigit, NotADigit>> \o Tail(Tail(sprintf_02x(SignedWire(Digest1, KeyOne))))}

\* what signature[71] may hold before hex_to_bytes fills it: zeros, 0xff,
\* or the signature a previous call left there
SignatureImages == {Zeros(71), Ones(71), SignedWire(Digest1, KeyOne)}

\* what seckey[32] may hold before fread fills it
SeckeyImages == {Zeros(32), Ones(32), KeyMid}

\* what 32 bytes of /dev/urandom may be
RandomDraws == Keys \cup {Zeros(32), Ones(32)}

\* cap on the iterations of the do-while of generate_seckey_R
MaxAttempts == 2

\* cap on the length of the decimal strings
MaxDecimalLen == 3

DecimalChars == {0, 1, 5, 6, NotADigit}

DecimalInputs ==
  UNION {[1..k -> DecimalChars] : k \in 0..MaxDecimalLen}

(***************************************************************************)
(* The state machine: one entry point is called after the other.           *)
(***************************************************************************)
NoSign == [arg |-> <<>>, ret |-> NoCall]

Init ==
  /\ pc = "idle"
  /\ op = "none"
  /\ arg = <<>>
  /\ ret = NoCall
  /\ stack = <<>>
  /\ seckey = <<>>
  /\ caller = "none"
  /\ attempts = 0
  /\ shortRead = FALSE
  /\ prevSign = NoSign

\* a sign_R_R call remembers the call before it when that was sign_R_R too
RecordSign(name) ==
  prevSign' = IF name = "sign_R_R" /\ op = "sign_R_R"
              THEN [arg |-> arg, ret |-> ret]
              ELSE NoSign

\* a call that is no key generation returns
Return(name, args, result, stk) ==
  /\ pc' = "idle"
  /\ op' = name
  /\ arg' = args
  /\ ret' = result
  /\ stack' = stk
  /\ seckey' = <<>>
  /\ caller' = "none"
  /\ attempts' = 0
  /\ shortRead' = FALSE
  /\ RecordSign(name)

ValidPrivate ==
  \E hex \in ValidPrivateInputs :
    /\ pc = "idle"
    /\ Return("valid_private_R", <<hex>>, RInteger(valid_private_R(hex)), <<>>)

Sign ==
  \E msg \in SignDigests, key \in SignKeys, stk \in DerImages :
    /\ pc = "idle"
    /\ Return("sign_R_R", <<msg, key>>, sign_R_R(msg, key, stk), stk)

Recover ==
  \E hex \in HexInputs, hash \in Digests, stk \in SignatureImages :
    \E result \in ecrecover_R(hex, hash, stk) :
      /\ pc = "idle"
      /\ Return("ecrecover_R", <<hex, hash>>, result, stk)

BigintToBytes ==
  \E str \in DecimalInputs :
    /\ pc = "idle"
    /\ Return("biginteger_to_bytes_R", <<str>>, biginteger_to_bytes_R(str), <<>>)

BigintToHex ==
  \E str \in DecimalInputs :
    /\ pc = "idle"
    /\ Return("biginteger_to_hex_R", <<str>>, biginteger_to_hex_R(str), <<>>)

\* generate_seckey_R is entered, from R or from generate_keypair_R; seckey
\* is not initialised
GenerateBegin ==
  \E who \in {"generate_seckey_R", "generate_keypair_R"}, stk \in SeckeyImages :
    /\ pc = "idle"
    /\ pc' = "seckey_loop"
    /\ op' = who
    /\ arg' = <<>>
    /\ ret' = NoCall
    /\ stack' = stk
    /\ seckey' = stk
    /\ caller' = who
    /\ attempts' = 0
    /\ shortRead' = FALSE
    /\ RecordSign(who)

\* an iteration of the do-while: fopen fails
SeckeyOpenFails ==
  /\ pc = "seckey_loop"
  /\ pc' = "idle"
  /\ ret' = RError("Failed to open /dev/urandom")
  /\ UNCHANGED <<op, arg, stack, seckey, caller, attempts, shortRead, prevSign>>

\* the rest of an iteration once fread has returned: secp256k1_ec_seckey_verify
\* decides between another iteration and the return
SeckeyIterationEnds(key32, short) ==
  /\ seckey' = key32
  /\ shortRead' = (shortRead \/ short)
  /\ attempts' = attempts + 1
  /\ IF secp256k1_ec_seckey_verify(key32) = 0
     THEN /\ attempts < MaxAttempts
          /\ pc' = "seckey_loop"
          /\ ret' = ret
     ELSE /\ pc' = "idle"
          /\ ret' = IF caller = "generate_keypair_R"
                    THEN generate_keypair_R(generate_seckey_R(key32))
                    ELSE generate_seckey_R(key32)
  /\ UNCHANGED <<op, arg, stack, caller, prevSign>>

\* an iteration of the do-while: fread delivers 32 bytes
SeckeyRead ==
  \E bytes \in RandomDraws :
    /\ pc = "seckey_loop"
    /\ SeckeyIterationEnds(bytes, FALSE)

\* an iteration of the do-while: fread delivers nothing, its result is not
\* looked at and seckey keeps what it held
SeckeyShortRead ==
  /\ pc = "seckey_loop"
  /\ SeckeyIterationEnds(seckey, TRUE)

Next ==
  \/ ValidPrivate
  \/ Sign
  \/ Recover
  \/ BigintToBytes
  \/ BigintToHex
  \/ GenerateBegin
  \/ SeckeyOpenFails
  \/ SeckeyRead
  \/ SeckeyShortRead

Spec == Init /\ [][Next]_vars

(***************************************************************************)
(* Vocabulary of the properties.                                           *)
(***************************************************************************)
\* every character of the string is a hex digit
IsHex(str) == \A i \in 1..Len(str) : str[i] \in 0..15

\* the byte at C index i of the input a well-formed hex string encodes
InputByte(hex, i) == 16 * hex[2 * i + 1] + hex[2 * i + 2]

\* the 65-byte uncompressed encoding of a point: 0x04, X, Y
SerializeUncompressed(point) == <<4>> \o point.x \o point.y

\* the compressed public key of a private key
CompressedKeyOf(key32) == SerializeCompressed(secp256k1_ec_pubkey_create(key32))

RecoveryByteWarning == "Recovery byte should be between 0x1B and 0x1E."

\* the warnings of the gates up to the comparison of the declared length
Step2Warnings ==
  {"Invalid DER signature length.", RecoveryByteWarning,
   "Signature must be of type DER (0x30).", "Signature length mismatch."}

(***************************************************************************)
(* The properties.                                                         *)
(***************************************************************************)
\* C1: round trip.  Whenever ecrecover_R is handed the hex encoding of the
\* wire signature sign_R_R returns for a valid key and a digest, together
\* with that digest, it returns the compressed public key of the key.
C1_RoundTrip ==
  \A m \in Digests, k \in Keys :
    (op = "ecrecover_R" /\ arg = <<sprintf_02x(SignedWire(m, k)), m>>)
      => ret = RRaw(CompressedKeyOf(k))

\* C1, the case that works: the 71-byte signature of Digest1 under KeyOne
\* (r and s of 32 content bytes each) is recovered to the key of KeyOne.
C1_Recovered71 ==
  /\ op = "ecrecover_R"
  /\ arg = <<sprintf_02x(SignedWire(Digest1, KeyOne)), Digest1>>
  /\ Len(SignedWire(Digest1, KeyOne)) = 71
  /\ ret = RRaw(CompressedKeyOf(KeyOne))

\* C2: valid_private_R answers 1 exactly when its input is 32 bytes (64 hex
\* digits) whose big-endian value v satisfies 1 <= v <= n - 1, and 0
\* otherwise.
C2_ValidPrivateIff ==
  op = "valid_private_R" =>
    LET hex == arg[1]
        inRange == /\ Len(hex) = 64
                   /\ IsHex(hex)
                   /\ hex # Zeros(64)
                   /\ LexLess(hex, sprintf_02x(secp256k1_n))
    IN  ret = RInteger(IF inRange THEN 1 ELSE 0)

\* C3: a generate_keypair_R call that returns, returns a 32-byte private
\* key d with 1 <= d <= n - 1 and the 65-byte uncompressed encoding
\* 0x04 || X || Y of d * G.
C3_KeypairUncompressed ==
  (op = "generate_keypair_R" /\ pc = "idle" /\ ret.kind = "list") =>
    LET d == ret.val[1]
        Q == ret.val[2]
    IN  /\ Len(d) = 32
        /\ secp256k1_ec_seckey_verify(d) = 1
        /\ Len(Q) = 65
        /\ Q = SerializeUncompressed(secp256k1_ec_pubkey_create(d))

\* C4: ecrecover_R ends with the recovery-byte warning exactly when the
\* first byte of its input is outside 0x1B..0x1E, whatever the other bytes
\* are.
C4_RecoveryByteGate ==
  (op = "ecrecover_R" /\ Len(arg[1]) >= 2 /\ Len(arg[1]) % 2 = 0 /\ IsHex(arg[1])) =>
    LET b == InputByte(arg[1], 0)
    IN  (b < \h1b \/ b > \h1e) <=> (ret.msg = RecoveryByteWarning)

\* C5: a failure of ecrecover_R is an error outcome: the call never ends a
\* failure by returning a value, the integer 0.
C5_FailuresAreErrors ==
  op = "ecrecover_R" => ret.kind \in {"raw", "error"}

\* C6: once a read of the random source has delivered fewer than 32 bytes,
\* the key generation has ended in an error: it neither goes on reading nor
\* returns a key.
C6_FailingSourceIsFatal ==
  shortRead => (pc = "idle" /\ ret.kind = "error")

\* C7: determinism of sign.  A sign_R_R call that follows a sign_R_R call
\* with the same digest and key has the same outcome, byte for byte,
\* whatever its buffers held before.
C7_SignDeterministic ==
  (op = "sign_R_R" /\ prevSign.arg = arg) => ret = prevSign.ret

\* C7 witness: a valid key and digest signed twice in a row, a wire
\* signature returned.
C7_Witness ==
  /\ op = "sign_R_R"
  /\ prevSign.arg = arg
  /\ ret.kind = "raw"
  /\ arg[2] \in Keys
  /\ Len(ret.val) = 72

\* C8: biginteger_to_bytes_R and biginteger_to_hex_R end in an error for a
\* string that is empty or holds a character that is no decimal digit.
C8_MalformedFails ==
  (/\ op \in {"biginteger_to_bytes_R", "biginteger_to_hex_R"}
   /\ (arg[1] = <<>> \/ \E i \in 1..Len(arg[1]) : arg[1][i] \notin 0..9))
    => ret.kind = "error"

\* C9: DER round trip.  Whenever ecrecover_R is handed the DER encoding of
\* a signature (r, s) of the table behind its recovery byte, what it decodes
\* and passes on as the compact signature is r || s.
C9_DerRoundTrip ==
  \A t \in SignTable :
    LET der == secp256k1_ecdsa_signature_serialize_der(t.r, t.s, DER_BUFFER_SIZE)
    IN  (op = "ecrecover_R" /\ arg[1] = sprintf_02x(<<\h1b + t.recid>> \o der.out))
          => LET decoded == ecrecover_decode(ecrecover_signature(arg[1], stack),
                                             SIGNATURE_BUFFER_SIZE)
             IN  decoded.msg = "" /\ decoded.r_s_compact = t.r \o t.s

\* C9, the case that works: an encoding with r and s of 32 content bytes
\* each is decoded to r || s.
C9_Decoded3232 ==
  \E t \in SignTable :
    LET der == secp256k1_ecdsa_signature_serialize_der(t.r, t.s, DER_BUFFER_SIZE)
    IN  /\ op = "ecrecover_R"
        /\ arg[1] = sprintf_02x(<<\h1b + t.recid>> \o der.out)
        /\ der.len = 70
        /\ ecrecover_decode(ecrecover_signature(arg[1], stack),
                            SIGNATURE_BUFFER_SIZE).r_s_compact = t.r \o t.s

\* C10: ecrecover_R gets past the comparison of the declared SEQUENCE
\* length only when the declared length + 3 is the number of bytes of its
\* input.
C10_DeclaredLengthMatchesInput ==
  (op = "ecrecover_R" /\ Len(arg[1]) >= 6 /\ Len(arg[1]) % 2 = 0 /\ IsHex(arg[1])) =>
    LET L        == Len(arg[1]) \div 2
        declared == InputByte(arg[1], 2)
    IN  ret.msg \notin Step2Warnings => declared + 3 = L

\* C11: memory safety of recover.  Every index of signature[] that
\* ecrecover_R reads lies inside the 71-byte buffer and inside the prefix
\* hex_to_bytes filled from the input, and every write to r_bytes and
\* s_bytes lies in 0..31.
C11_ReadsInsideSuppliedInput ==
  op = "ecrecover_R" =>
    LET signature == ecrecover_signature(arg[1], stack)
        reads     == ecrecover_reads(signature, SIGNATURE_BUFFER_SIZE)
        writes    == ecrecover_writes(signature, SIGNATURE_BUFFER_SIZE)
    IN  /\ \A i \in reads : 0 <= i /\ i < SIGNATURE_BUFFER_SIZE
        /\ \A i \in reads : i < ecrecover_filled(arg[1])
        /\ \A i \in writes.r \cup writes.s : 0 <= i /\ i <= 31

\* C11, the case that works: a 71-byte input that passes every gate, all
\* 71 bytes read and all of them supplied by the input.
C11_AllReadsSupplied ==
  /\ op = "ecrecover_R"
  /\ ecrecover_filled(arg[1]) = 71
  /\ ecrecover_reads(ecrecover_signature(arg[1], stack), SIGNATURE_BUFFER_SIZE) = 0..70
  /\ ecrecover_writes(ecrecover_signature(arg[1], stack), SIGNATURE_BUFFER_SIZE).r = 0..31


====
